---- MODULE Spec2Model ----
(***************************************************************************)
(* Model of kirbyju/tcia-cohort-builder:                                   *)
(*   src/pathology-downloader.py  - load_manifest, PathologyDownloadThread,*)
(*                                   PathologyDownloadManager              *)
(*   src/tcia-cohort-builder.py   - calculate_age_at_baseline,             *)
(*                                   filter_dataframe,                     *)
(*                                   generate_pathology_manifest           *)
(* Python str values are TLA+ strings (Len, \o and SubSeq work on them).   *)
(* A spreadsheet cell is a record [t, v, n, d]: t = "str" for a Python str  *)
(* v; t = "num" for the number n/d (d > 0); t = "nan" for the float NaN    *)
(* pandas gives an empty cell (v = "nan" is its str()).                    *)
(***************************************************************************)
EXTENDS Integers, Sequences, FiniteSets, TLC

VARIABLES
    sheet,              \* the Excel file at the selected path
    file_path_input,    \* PathologyDownloadManager.file_path_input text
    download_dir_input, \* PathologyDownloadManager.download_dir_input text
    log_display,        \* lines start_download appended to the log widget
    progress_bar,       \* value of the progress bar
    threads,            \* the PathologyDownloadThread objects constructed so far
    starts,             \* number of download starts requested so far
    init_error,         \* exception raised by PathologyDownloadThread.__init__(str, dir)
    dirs,               \* directories os.makedirs has created
    files,              \* files open(file_path, 'wb') has created
    clinical_xlsx,      \* the clinical spreadsheet load_data reads
    df,                 \* what load_data returned (tcia-cohort-builder.py:286)
    filters,            \* the filters dictionary (lines 300-363)
    age_range,          \* the slider's (min, max), in tenths of a year
    is_default_age_range,
    filtered_df,        \* filter_dataframe's result (line 388)
    pathology_data,     \* the pathology asset table (line 291)
    pathology_manifest, \* what generate_pathology_manifest returned or raised
    page_number,        \* st.session_state.page_number (lines 457-458)
    page_size           \* the Page Size number input (line 444)

dlvars == <<sheet, file_path_input, download_dir_input, log_display,
            progress_bar, threads, starts, init_error, dirs, files>>

cbvars == <<clinical_xlsx, df, filters, age_range, is_default_age_range,
            filtered_df, pathology_data, pathology_manifest>>

pgvars == <<page_number, page_size>>

vars == <<dlvars, cbvars, pgvars>>

----------------------------------------------------------------------------
(* Bounds of the model.                                                    *)

MaxRows == 2
MaxStarts == 2
MaxAgeRows == 1
MaxClinicalRows == 2
MaxAssetRows == 2

----------------------------------------------------------------------------
(* Python values and string functions.                                     *)

Str(s) == [t |-> "str", v |-> s, n |-> 0, d |-> 1]
Num(n, d) == [t |-> "num", v |-> "", n |-> n, d |-> d]
NaN == [t |-> "nan", v |-> "nan", n |-> 0, d |-> 1]
IsStr(c) == c.t = "str"
IsNum(c) == c.t = "num"

\* sub in s  /  s.find(sub) >= 0 : positions are 1-based here, 0 = not found
StartsAt(s, sub, p) == /\ p >= 1
                       /\ p + Len(sub) - 1 <= Len(s)
                       /\ SubSeq(s, p, p + Len(sub) - 1) = sub

RECURSIVE FindFrom(_, _, _)
FindFrom(s, sub, p) ==
    IF p + Len(sub) - 1 > Len(s) THEN 0
    ELSE IF SubSeq(s, p, p + Len(sub) - 1) = sub THEN p
    ELSE FindFrom(s, sub, p + 1)

Find(s, sub) == FindFrom(s, sub, 1)

\* s.split(sep, 1)[-1] : the text after the first sep, or all of s without sep
SplitOnceLast(s, sep) ==
    LET p == Find(s, sep)
    IN  IF p = 0 THEN s ELSE SubSeq(s, p + Len(sep), Len(s))

\* position of the last "/" in p, 0 if none  (p.rfind('/') + 1)
RECURSIVE RFindSlash(_, _)
RFindSlash(p, i) ==
    IF i = 0 THEN 0
    ELSE IF SubSeq(p, i, i) = "/" THEN i
    ELSE RFindSlash(p, i - 1)

\* s.rstrip('/')
RECURSIVE RStripSlash(_)
RStripSlash(s) ==
    IF Len(s) > 0 /\ SubSeq(s, Len(s), Len(s)) = "/"
    THEN RStripSlash(SubSeq(s, 1, Len(s) - 1))
    ELSE s

\* posixpath.join(a, b)
os_path_join(a, b) ==
    IF StartsAt(b, "/", 1) THEN b
    ELSE IF a = "" \/ SubSeq(a, Len(a), Len(a)) = "/" THEN a \o b
    ELSE a \o "/" \o b

\* posixpath.dirname(p)
os_path_dirname(p) ==
    LET head == SubSeq(p, 1, RFindSlash(p, Len(p)))
    IN  IF head # "" /\ RStripSlash(head) # "" THEN RStripSlash(head) ELSE head

----------------------------------------------------------------------------
(* Tables (pandas DataFrames): a set of column names and a sequence of     *)
(* rows, each row a function from the column names to cells.               *)

EmptyDf == [columns |-> {}, rows |-> <<>>]

url_columns == <<"imageUrl", "image_url", "url", "Image URL">>
patient_id_columns == <<"Case ID", "Patient ID", "case_id", "Case ID">>

Range(s) == {s[i] : i \in DOMAIN s}

\* FirstPresent taking the last alias present instead of the first
FirstPresent_Last(names, columns) ==
    LET hits == {i \in DOMAIN names : names[i] \in columns}
    IN  IF hits = {} THEN ""
        ELSE names[CHOOSE i \in hits : \A j \in hits : i >= j]

\* next((col for col in names if col in columns), None); None is ""
FirstPresent(names, columns) ==
    LET hits == {i \in DOMAIN names : names[i] \in columns}
    IN  IF hits = {} THEN ""
        ELSE names[CHOOSE i \in hits : \A j \in hits : i <= j]

\* load_manifest on the table read from the Excel file
load_manifest(excel) ==
    LET url_column == FirstPresent(url_columns, excel.columns)
        patient_id_column == FirstPresent(patient_id_columns, excel.columns)
    IN  IF url_column = ""
        THEN [kind |-> "ValueError",
              msg |-> "Could not find image URL column in the Excel file.",
              df |-> EmptyDf]
        ELSE IF patient_id_column = ""
        THEN [kind |-> "ValueError",
              msg |-> "Could not find patient ID column in the Excel file.",
              df |-> EmptyDf]
        ELSE [kind |-> "ok", msg |-> "",
              df |-> [columns |-> {"imageUrl", "Case ID"},
                      rows |-> [i \in DOMAIN excel.rows |->
                                  [c \in {"imageUrl", "Case ID"} |->
                                     IF c = "imageUrl"
                                     THEN excel.rows[i][url_column]
                                     ELSE excel.rows[i][patient_id_column]]]]]

----------------------------------------------------------------------------
(* PathologyDownloadThread                                                 *)

\* PathologyDownloadThread.__init__ with a table (data is not a str)
NewThread(data, download_dir) ==
    [data |-> data, download_dir |-> download_dir,
     pc |-> "loop",        \* loop | downloading | finished | crashed
     idx |-> 0,            \* enumerate index of the row last taken
     file_path |-> "",     \* file_path of the row last taken
     error |-> "",         \* the exception that ended run, if any
     progress |-> <<>>,    \* progress_signal emissions, in order
     complete |-> <<>>]    \* complete_signal emissions, in order

Progress(idx, total, message) ==
    [current |-> idx, total |-> total, message |-> message]

FailedMessage(patient_id, e) ==
    "Failed to download " \o patient_id.v \o ": " \o e

\* run, from the head of the for loop to the request being sent for the next
\* row (lines 65-78); the exceptions of lines 66-71 are raised outside the try
RunBeginRow(t) ==
    /\ t \in DOMAIN threads
    /\ threads[t].pc = "loop"
    /\ threads[t].idx < Len(threads[t].data.rows)
    /\ LET th == threads[t]
           idx == th.idx + 1
           total_images == Len(th.data.rows)
           row == th.data.rows[idx]
       IN  IF "imageUrl" \notin DOMAIN row
           THEN /\ threads' = [threads EXCEPT ![t].idx = idx, ![t].pc = "crashed",
                                              ![t].error = "KeyError: 'imageUrl'"]
                /\ UNCHANGED <<dirs, files>>
           ELSE IF "Case ID" \notin DOMAIN row
           THEN /\ threads' = [threads EXCEPT ![t].idx = idx, ![t].pc = "crashed",
                                              ![t].error = "KeyError: 'Case ID'"]
                /\ UNCHANGED <<dirs, files>>
           ELSE IF ~IsStr(row["imageUrl"])
           THEN /\ threads' = [threads EXCEPT ![t].idx = idx, ![t].pc = "crashed",
                                              ![t].error = "AttributeError"]
                /\ UNCHANGED <<dirs, files>>
           ELSE LET url == row["imageUrl"].v
                    patient_id == row["Case ID"]
                    sub_path == SplitOnceLast(url, "/ross/")
                    file_path == os_path_join(th.download_dir, sub_path)
                    dir == os_path_dirname(file_path)
                IN  \E made \in BOOLEAN :
                      /\ (dir = "") => ~made
                      /\ IF made
                         THEN /\ dirs' = dirs \cup {dir}
                              /\ threads' = [threads EXCEPT
                                   ![t].idx = idx, ![t].file_path = file_path,
                                   ![t].pc = "downloading"]
                         ELSE /\ dirs' = dirs
                              /\ threads' = [threads EXCEPT
                                   ![t].idx = idx, ![t].file_path = file_path,
                                   ![t].progress = Append(@, Progress(idx, total_images,
                                        FailedMessage(patient_id, "OSError")))]
                      /\ files' = files
    /\ UNCHANGED <<sheet, file_path_input, download_dir_input, log_display,
                   progress_bar, starts, init_error, cbvars, pgvars>>

\* run, from the response of requests.get to the progress signal (lines 78-89)
\* saved, or the exception of requests.get, raise_for_status, open
Outcomes == {"saved", "ConnectionError", "HTTPError", "OSError"}

RunFinishRow(t) ==
    /\ t \in DOMAIN threads
    /\ threads[t].pc = "downloading"
    /\ LET th == threads[t]
           total_images == Len(th.data.rows)
           patient_id == th.data.rows[th.idx]["Case ID"]
       IN  \E outcome \in Outcomes :
             /\ files' = IF outcome = "saved" THEN files \cup {th.file_path} ELSE files
             /\ threads' = [threads EXCEPT
                  ![t].pc = "loop",
                  ![t].progress = Append(@, Progress(th.idx, total_images,
                       IF outcome = "saved"
                       THEN "Downloaded: " \o th.file_path
                       ELSE FailedMessage(patient_id, outcome)))]
    /\ UNCHANGED <<sheet, file_path_input, download_dir_input, log_display,
                   progress_bar, starts, init_error, dirs, cbvars, pgvars>>

\* run, after the last row (line 91)
RunComplete(t) ==
    /\ t \in DOMAIN threads
    /\ threads[t].pc = "loop"
    /\ threads[t].idx = Len(threads[t].data.rows)
    /\ threads' = [threads EXCEPT ![t].pc = "finished",
                                  ![t].complete = Append(@, TRUE)]
    /\ UNCHANGED <<sheet, file_path_input, download_dir_input, log_display,
                   progress_bar, starts, init_error, dirs, files, cbvars, pgvars>>

----------------------------------------------------------------------------
(* PathologyDownloadManager                                                *)

ExcelChoices == {"manifest.xlsx"}
DirChoices == {"/out"}

select_excel_file ==
    /\ \E file_path \in ExcelChoices \cup {""} :
         file_path_input' = IF file_path # "" THEN file_path ELSE file_path_input
    /\ UNCHANGED <<sheet, download_dir_input, log_display, progress_bar,
                   threads, starts, init_error, dirs, files, cbvars, pgvars>>

select_download_directory ==
    /\ \E directory \in DirChoices \cup {""} :
         download_dir_input' = IF directory # "" THEN directory ELSE download_dir_input
    /\ UNCHANGED <<sheet, file_path_input, log_display, progress_bar,
                   threads, starts, init_error, dirs, files, cbvars, pgvars>>

start_download ==
    /\ starts < MaxStarts
    /\ starts' = starts + 1
    /\ LET excel_path == file_path_input
           download_dir == download_dir_input
       IN  IF excel_path = "" \/ download_dir = ""
           THEN /\ log_display' = Append(log_display,
                      "Please select both Excel file and download directory.")
                /\ UNCHANGED <<progress_bar, threads>>
           ELSE IF ~sheet.readable
           THEN /\ log_display' = Append(log_display, "Error: cannot read the Excel file")
                /\ UNCHANGED <<progress_bar, threads>>
           ELSE /\ log_display' = <<>>
                /\ progress_bar' = 0
                /\ threads' = Append(threads, NewThread(sheet.df, download_dir))
    /\ UNCHANGED <<sheet, file_path_input, download_dir_input, init_error, dirs, files,
                   cbvars, pgvars>>

\* PathologyDownloadThread(excel_path, download_dir).start(): data is a str,
\* so __init__ loads it through load_manifest
start_from_path ==
    /\ starts < MaxStarts
    /\ starts' = starts + 1
    /\ \E download_dir \in DirChoices :
         IF ~sheet.readable
         THEN /\ init_error' = "cannot read the Excel file"
              /\ UNCHANGED threads
         ELSE LET m == load_manifest(sheet.df)
              IN  IF m.kind # "ok"
                  THEN /\ init_error' = m.kind \o ": " \o m.msg
                       /\ UNCHANGED threads
                  ELSE /\ threads' = Append(threads, NewThread(m.df, download_dir))
                       /\ UNCHANGED init_error
    /\ UNCHANGED <<sheet, file_path_input, download_dir_input, log_display,
                   progress_bar, dirs, files, cbvars, pgvars>>

----------------------------------------------------------------------------
(* tcia-cohort-builder.py: the age normalizer.  Numbers are exact          *)
(* rationals n/d; 1/365.25 is 4/1461.                                      *)

age_uom_factors == [Year |-> Num(1, 1), Month |-> Num(1, 12), Day |-> Num(4, 1461)]

age_columns == <<"Age at Diagnosis", "Age at Surgery", "Age at Enrollment">>
uom_column == "Age UOM"

UpperCase == "ABCDEFGHIJKLMNOPQRSTUVWXYZ"
LowerCase == "abcdefghijklmnopqrstuvwxyz"

LowerChar(c) ==
    LET p == Find(UpperCase, c) IN IF p = 0 THEN c ELSE SubSeq(LowerCase, p, p)

\* str.lower()
RECURSIVE Lower(_)
Lower(s) ==
    IF s = "" THEN "" ELSE LowerChar(SubSeq(s, 1, 1)) \o Lower(SubSeq(s, 2, Len(s)))

\* str.strip()
RECURSIVE Strip(_)
Strip(s) ==
    IF Len(s) > 0 /\ SubSeq(s, 1, 1) = " " THEN Strip(SubSeq(s, 2, Len(s)))
    ELSE IF Len(s) > 0 /\ SubSeq(s, Len(s), Len(s)) = " "
    THEN Strip(SubSeq(s, 1, Len(s) - 1))
    ELSE s

\* sub in s
Contains(s, sub) == Find(s, sub) # 0

\* Series.str.lower().str.strip() on one cell: NaN stays NaN
StrLowerStrip(c) == IF IsStr(c) THEN Str(Strip(Lower(c.v))) ELSE NaN

\* UomFactor testing "month" before "year"
UomFactor_MonthFirst(x) ==
    IF Contains(x.v, "month") THEN age_uom_factors.Month
    ELSE IF Contains(x.v, "year") THEN age_uom_factors.Year
    ELSE IF Contains(x.v, "day") THEN age_uom_factors.Day
    ELSE Num(1, 1)

\* the lambda of lines 159-164 on one cell; str(x) is x.v
UomFactor(x) ==
    IF Contains(x.v, "year") THEN age_uom_factors.Year
    ELSE IF Contains(x.v, "month") THEN age_uom_factors.Month
    ELSE IF Contains(x.v, "day") THEN age_uom_factors.Day
    ELSE Num(1, 1)

\* ToNumeric turning what is no number into 0 instead of NaN
ToNumeric_Zero(c) == IF IsNum(c) THEN c ELSE Num(0, 1)

\* pd.to_numeric(errors='coerce') on one cell (the strings drawn are no numerals)
ToNumeric(c) == IF IsNum(c) THEN c ELSE NaN

\* a * b on floats
Mul(a, b) == IF IsNum(a) /\ IsNum(b) THEN Num(a.n * b.n, a.d * b.d) ELSE NaN

\* a < b on numbers
Less(a, b) == a.n * b.d < b.n * a.d

\* DataFrame.min(axis=1) on the cells of one row: NaN is skipped, and is the
\* result when every cell is NaN or there is no cell
RECURSIVE RowMin(_)
RowMin(cells) ==
    IF cells = <<>> THEN NaN
    ELSE LET rest == RowMin(Tail(cells))
             c == Head(cells)
         IN  IF ~IsNum(c) THEN rest
             ELSE IF ~IsNum(rest) THEN c
             ELSE IF Less(rest, c) THEN rest ELSE c

\* rint(q) for q = n/d >= 0: round half to even
Rint(n, d) ==
    LET q == n \div d
        r == n % d
    IN  IF 2 * r < d THEN q
        ELSE IF 2 * r > d THEN q + 1
        ELSE IF q % 2 = 0 THEN q ELSE q + 1

\* Series.round(1) on one cell: rint(x * 10) / 10
Round1(c) == IF IsNum(c) THEN Num(Rint(10 * c.n, c.d), 10) ELSE NaN

\* calculate_age_at_baseline with its default age_columns and uom_column
calculate_age_at_baseline(t) ==
    IF uom_column \notin t.columns
    THEN [kind |-> "KeyError", df |-> EmptyDf]
    ELSE LET existing_age_columns == SelectSeq(age_columns, LAMBDA c : c \in t.columns)
             numeric(row) == [c \in t.columns |->
                                IF c \in Range(age_columns) THEN ToNumeric(row[c])
                                ELSE row[c]]
             UOM_factor(row) == UomFactor(StrLowerStrip(row[uom_column]))
             years(row) == [k \in DOMAIN existing_age_columns |->
                              Mul(numeric(row)[existing_age_columns[k]], UOM_factor(row))]
             baseline(row) == Round1(RowMin(years(row)))
         IN  [kind |-> "ok",
              df |-> [columns |-> t.columns \cup {"Age at Baseline"},
                      rows |-> [i \in DOMAIN t.rows |->
                                  [c \in t.columns \cup {"Age at Baseline"} |->
                                     IF c = "Age at Baseline" THEN baseline(t.rows[i])
                                     ELSE numeric(t.rows[i])[c]]]]]

\* Series.astype(str) on one cell (no number occurs in the columns it is used on)
AsTypeStr(c) == Str(c.v)

NoDf == [kind |-> "None", df |-> EmptyDf]

\* load_data: read the sheet, make every column but the raw ages a str
\* column, normalize the ages; any exception gives None
load_data ==
    /\ df = NoDf
    /\ LET read == [columns |-> clinical_xlsx.columns,
                    rows |-> [i \in DOMAIN clinical_xlsx.rows |->
                                [c \in clinical_xlsx.columns |->
                                   IF c \in Range(age_columns)
                                   THEN clinical_xlsx.rows[i][c]
                                   ELSE AsTypeStr(clinical_xlsx.rows[i][c])]]]
           r == calculate_age_at_baseline(read)
       IN  df' = IF r.kind = "ok" THEN r ELSE [kind |-> "error", df |-> EmptyDf]
    /\ UNCHANGED <<clinical_xlsx, filters, age_range, is_default_age_range,
                   filtered_df, pathology_data, pathology_manifest, dlvars, pgvars>>

----------------------------------------------------------------------------
(* tcia-cohort-builder.py: the filter engine.  Ages are numbers n/10.      *)

\* the keys of the filters dictionary, in insertion order (lines 304-358)
filter_columns == <<"Available Images", "Project Short Name", "Race", "Ethnicity",
                    "Sex at Birth", "Primary Diagnosis", "Primary Site">>

\* Series.isin(values) on one cell
IsIn(c, values) == IsStr(c) /\ c.v \in values

\* a <= b, a >= b on floats: False when either is NaN
Leq(a, b) == IsNum(a) /\ IsNum(b) /\ a.n * b.d <= b.n * a.d
Geq(a, b) == IsNum(a) /\ IsNum(b) /\ a.n * b.d >= b.n * a.d

\* ApplyCategorical without the "if values" guard: an empty list filters too
RECURSIVE ApplyCategorical_NoGuard(_, _, _)
ApplyCategorical_NoGuard(rows, flt, columns) ==
    IF columns = <<>> \/ rows = <<>> THEN rows
    ELSE ApplyCategorical_NoGuard(
             IF Head(columns) \in DOMAIN rows[1]
             THEN SelectSeq(rows, LAMBDA r : IsIn(r[Head(columns)], flt[Head(columns)]))
             ELSE rows,
             flt, Tail(columns))

\* the loop of lines 217-219 over the columns still to visit; a column with
\* accepted values is a column of the table (a multiselect offers only the
\* values its column holds)
RECURSIVE ApplyCategorical(_, _, _)
ApplyCategorical(rows, flt, columns) ==
    IF columns = <<>> THEN rows
    ELSE LET column == Head(columns)
             values == flt[column]
         IN  ApplyCategorical(
                 IF values # {}
                 THEN SelectSeq(rows, LAMBDA r : IsIn(r[column], values))
                 ELSE rows,
                 flt, Tail(columns))

\* ApplyAgeRange without the null-inclusion branch for a minimum of 0
ApplyAgeRange_NoNulls(t, rows, range, is_default) ==
    IF range # <<>> /\ "Age at Baseline" \in t.columns /\ ~is_default
    THEN SelectSeq(rows, LAMBDA r :
             /\ Geq(r["Age at Baseline"], range[1])
             /\ Leq(r["Age at Baseline"], range[2]))
    ELSE rows

\* lines 222-235; range is <<min_age, max_age>>, or <<>> for None
ApplyAgeRange(t, rows, range, is_default) ==
    IF range # <<>> /\ "Age at Baseline" \in t.columns /\ ~is_default
    THEN LET min_age == range[1]
             max_age == range[2]
         IN  IF min_age.n = 0
             THEN SelectSeq(rows, LAMBDA r :
                      \/ r["Age at Baseline"].t = "nan"
                      \/ Leq(r["Age at Baseline"], max_age))
             ELSE SelectSeq(rows, LAMBDA r :
                      /\ Geq(r["Age at Baseline"], min_age)
                      /\ Leq(r["Age at Baseline"], max_age))
    ELSE rows

\* filter_dataframe returning the kept rows in reverse order
filter_dataframe_Reversed(t, flt, range, is_default) ==
    LET kept == ApplyAgeRange(t, ApplyCategorical(t.rows, flt, filter_columns),
                              range, is_default)
    IN  [columns |-> t.columns,
         rows |-> [i \in 1..Len(kept) |-> kept[Len(kept) + 1 - i]]]

\* lines 213-237 (the copy of line 214 leaves the caller's table as it was)
filter_dataframe(t, flt, range, is_default) ==
    [columns |-> t.columns,
     rows |-> ApplyAgeRange(t, ApplyCategorical(t.rows, flt, filter_columns),
                            range, is_default)]

----------------------------------------------------------------------------
(* tcia-cohort-builder.py: the pathology manifest generator.               *)

required_columns == <<"Case ID", "imageId", "slideId", "imageHeight", "imagedWidth",
                      "physicalPixelSizeX", "physicalPixelSizeY", "imageUrl",
                      "created", "changed">>

\* DataFrame.merge(right, on='Case ID', how='left'): every left row, in
\* order, once per right row with its Case ID, or once with NaN in the
\* right's columns when there is none
RECURSIVE MergeLeft(_, _, _)
MergeLeft(left, right, rcolumns) ==
    IF left = <<>> THEN <<>>
    ELSE LET l == Head(left)
             hits == SelectSeq(right, LAMBDA r : r["Case ID"] = l["Case ID"])
             joined(r) == [c \in DOMAIN l \cup rcolumns |->
                             IF c \in DOMAIN l THEN l[c] ELSE r[c]]
             unmatched == [c \in DOMAIN l \cup rcolumns |->
                             IF c \in DOMAIN l THEN l[c] ELSE NaN]
         IN  (IF hits = <<>> THEN <<unmatched>>
              ELSE [k \in DOMAIN hits |-> joined(hits[k])])
             \o MergeLeft(Tail(left), right, rcolumns)

ManifestError(kind, msg, missing) ==
    [kind |-> kind, msg |-> msg, missing |-> missing, df |-> EmptyDf]

generate_pathology_manifest(filtered, pathology) ==
    LET missing_columns == SelectSeq(required_columns,
                                     LAMBDA col : col \notin pathology.columns)
    IN  IF "Case ID" \notin filtered.columns
        THEN ManifestError("ValueError",
               "The 'Case ID' column is missing from the filtered_df dataframe.", <<>>)
        ELSE IF "Case ID" \notin pathology.columns
        THEN ManifestError("ValueError",
               "The 'Case ID' column is missing from the pathology_data dataframe.", <<>>)
        ELSE IF missing_columns # <<>>
        THEN ManifestError("ValueError",
               "The following required columns are missing from pathology_data: ",
               missing_columns)
        ELSE IF "Available Images" \notin filtered.columns
        THEN ManifestError("KeyError", "'Available Images'", <<>>)
        ELSE LET filtered_case_ids ==
                     {r["Case ID"] : r \in
                        {x \in Range(filtered.rows) :
                            /\ IsStr(x["Available Images"])
                            /\ Contains(x["Available Images"].v, "Pathology")}}
                 manifest ==
                     SelectSeq([i \in DOMAIN pathology.rows |->
                                  [c \in Range(required_columns) |-> pathology.rows[i][c]]],
                               LAMBDA r : r["Case ID"] \in filtered_case_ids)
             IN  [kind |-> "ok", msg |-> "", missing |-> <<>>,
                  df |-> [columns |-> filtered.columns \cup Range(required_columns),
                          rows |-> MergeLeft(filtered.rows, manifest,
                                             Range(required_columns))]]

NoManifest == ManifestError("None", "", <<>>)

----------------------------------------------------------------------------
(* The spreadsheets the downloader is given.                               *)

URLS == {"https://host/ross/sub/dir/file.svs",
         "https://host/ross/a/ross/b.svs",
         "https://host/ross//abs/file.svs"}

UrlCells == {Str(u) : u \in URLS} \cup {NaN}

\* the case identifier of the i-th row
CaseIds == <<"A", "B", "C", "D">>

DlColumnSets == {{"imageUrl", "Case ID"}, {"image_url", "Case ID"},
                 {"imageUrl", "Patient ID"}, {"Case ID"}, {"imageUrl"}}

\* tables over the columns cs: any URL cell in a URL column, the row's case
\* identifier in an identifier column
TablesOver(cs) ==
    {[columns |-> cs,
      rows |-> [i \in DOMAIN us |->
                  [c \in cs |-> IF c \in Range(url_columns) THEN us[i]
                                ELSE Str(CaseIds[i])]]] :
        us \in UNION {[1..n -> UrlCells] : n \in 0..MaxRows}}

DlSheets == {[readable |-> TRUE, df |-> d] : d \in UNION {TablesOver(cs) : cs \in DlColumnSets}}
            \cup {[readable |-> FALSE, df |-> EmptyDf]}

\* sheets for the column resolver: any set of alias columns, every cell
\* holding the name of its column
AliasNames == Range(url_columns) \cup Range(patient_id_columns)

LoadSheets ==
    {[readable |-> TRUE,
      df |-> [columns |-> cs, rows |-> [i \in 1..n |-> [c \in cs |-> Str(c)]]]] :
        cs \in SUBSET AliasNames, n \in 0..MaxRows}

----------------------------------------------------------------------------
(* The clinical tables the dashboard is given.                             *)

UOMS == {Str("Year"), Str(" MONTHS "), Str("Days"), Str("Month/Year"), NaN}

\* the raw ages drawn for each age column
RawAges(c) ==
    CASE c = "Age at Diagnosis" -> {Num(0, 1), Num(600, 1), Str("unknown")}
      [] c = "Age at Surgery" -> {Num(51, 1), Str("unknown")}
      [] OTHER -> {Num(600, 1), Str("unknown")}

AgeColumnSets == {{uom_column} \cup cs : cs \in SUBSET Range(age_columns)}

AgeRowsOver(cs) ==
    {r \in [cs -> UOMS \cup UNION {RawAges(c) : c \in Range(age_columns)}] :
        \A c \in cs : IF c = uom_column THEN r[c] \in UOMS ELSE r[c] \in RawAges(c)}

AgeSheets ==
    UNION {{[columns |-> cs, rows |-> rs] :
               rs \in UNION {[1..n -> AgeRowsOver(cs)] : n \in 1..MaxAgeRows}} :
           cs \in AgeColumnSets}

ImageValues == {"Radiology; Pathology", "Radiology"}
SexValues == {"Female", "Male"}
Ages == {NaN, Num(0, 10), Num(400, 10), Num(401, 10)}

FilterTableColumns == {"Case ID", "Available Images", "Sex at Birth", "Age at Baseline"}

\* the i-th row of a clinical table, given its other cells
ClinicalRow(i, x) ==
    [c \in FilterTableColumns |->
        CASE c = "Case ID" -> Str(CaseIds[i])
          [] c = "Available Images" -> Str(x[1])
          [] c = "Sex at Birth" -> Str(x[2])
          [] OTHER -> x[3]]

FilterTables ==
    {[columns |-> FilterTableColumns, rows |-> [i \in DOMAIN xs |-> ClinicalRow(i, xs[i])]] :
        xs \in UNION {[1..n -> ImageValues \X SexValues \X Ages] : n \in 0..MaxClinicalRows}}

NoFilters == [c \in Range(filter_columns) |-> {}]

FilterChoices ==
    {[c \in Range(filter_columns) |->
        CASE c = "Available Images" -> imgs
          [] c = "Sex at Birth" -> sexes
          [] OTHER -> {}] :
     imgs \in {{}, {"Radiology"}, {"Radiology", "Radiology; Pathology"}},
     sexes \in {{}, {"Female"}}}

\* the slider's default: 0.0 to the maximum
DefaultAgeRange == <<Num(0, 10), Num(401, 10)>>

AgeRanges == {<<Num(lo, 10), Num(hi, 10)>> : lo \in {0, 400}, hi \in {400, 401}}

AvailableImages == {Str("Radiology; Pathology"), Str("Radiology"), Str("Pathology"),
                    Str("nan")}

ManifestClinicalColumnSets == {{"Case ID", "Available Images"}, {"Available Images"}}

ManifestClinicalTables ==
    {[columns |-> cs,
      rows |-> [i \in DOMAIN imgs |->
                  [c \in cs |-> IF c = "Case ID" THEN Str(CaseIds[i]) ELSE imgs[i]]]] :
        cs \in ManifestClinicalColumnSets,
        imgs \in UNION {[1..n -> AvailableImages] : n \in 0..MaxClinicalRows}}

AssetColumnSets == {Range(required_columns),
                    Range(required_columns) \ {"imageUrl"},
                    Range(required_columns) \ {"slideId", "created"},
                    Range(required_columns) \ {"Case ID"},
                    Range(required_columns) \ {"Case ID", "imageUrl"}}

\* the k-th asset row: an image of the case id
AssetRow(cs, k, id) ==
    [c \in cs |-> CASE c = "Case ID" -> Str(id)
                    [] c = "imageUrl" -> Str("https://host/ross/" \o id \o "/" \o CaseIds[k])
                    [] OTHER -> Str(c \o CaseIds[k])]

AssetTables ==
    UNION {{[columns |-> cs, rows |-> [k \in DOMAIN ids |-> AssetRow(cs, k, ids[k])]] :
               ids \in UNION {[1..n -> {"A", "B", "Z"}] : n \in 0..MaxAssetRows}} :
           cs \in AssetColumnSets}

DefaultPageSize == 10

\* the values given to the Page Size number input (line 444: 1 to 100)
PageSizes == {1, 2, DefaultPageSize}

\* the first run of a session: lines 444 and 457-458
PgStart == page_number = 0 /\ page_size = DefaultPageSize

DlStart ==
    /\ file_path_input = ""
    /\ download_dir_input = ""
    /\ log_display = <<>>
    /\ progress_bar = 0
    /\ threads = <<>>
    /\ starts = 0
    /\ init_error = ""
    /\ dirs = {}
    /\ files = {}

DlIdle == sheet = [readable |-> FALSE, df |-> EmptyDf] /\ DlStart

----------------------------------------------------------------------------
(* The dashboard's steps and the tables it is given.                       *)

\* line 388 after the widgets were changed from their defaults; every rerun
\* computes filtered_df from df alone, so one change reaches every result
apply_filters ==
    /\ df.kind = "ok"
    /\ filters = NoFilters /\ is_default_age_range
    /\ \E flt \in FilterChoices, range \in AgeRanges, is_default \in BOOLEAN :
         /\ filters' = flt
         /\ age_range' = range
         /\ is_default_age_range' = is_default
         /\ filtered_df' = filter_dataframe(df.df, flt, range, is_default)
    /\ UNCHANGED <<clinical_xlsx, df, pathology_data, pathology_manifest, dlvars, pgvars>>

\* the Generate Pathology Manifest button (lines 545-570)
generate_manifest_button ==
    /\ pathology_manifest = NoManifest
    /\ pathology_manifest' = generate_pathology_manifest(filtered_df, pathology_data)
    /\ UNCHANGED <<clinical_xlsx, df, filters, age_range, is_default_age_range,
                   filtered_df, pathology_data, dlvars, pgvars>>

Max(a, b) == IF a >= b THEN a ELSE b

\* line 454; // rounds down, as \div does
max_page(n, size) == Max(0, (n - 1) \div size)

\* display_page's page_data (lines 395-399): the slice filtered_df[start:end]
page_data(rows, number, size) ==
    LET start_idx == number * size
        end_idx == start_idx + size
    IN  [i \in 1..Max(0, (IF end_idx < Len(rows) THEN end_idx ELSE Len(rows)) - start_idx)
            |-> rows[start_idx + i]]

\* a rerun of the script with the previous-page button pressed (lines 468-469)
press_previous ==
    /\ df.kind = "ok"
    /\ page_number' = IF page_number > 0 THEN page_number - 1 ELSE page_number
    /\ UNCHANGED <<page_size, cbvars, dlvars>>

\* a rerun of the script with the next-page button pressed (lines 488-489)
press_next ==
    /\ df.kind = "ok"
    /\ page_number' = IF page_number < max_page(Len(filtered_df.rows), page_size)
                      THEN page_number + 1
                      ELSE page_number
    /\ UNCHANGED <<page_size, cbvars, dlvars>>

\* a rerun of the script after the Page Size input was changed (line 444);
\* session state keeps the page number
change_page_size ==
    /\ df.kind = "ok"
    /\ \E size \in PageSizes : size # page_size /\ page_size' = size
    /\ UNCHANGED <<page_number, cbvars, dlvars>>

CbIdle ==
    /\ clinical_xlsx = EmptyDf
    /\ df = NoDf
    /\ filters = NoFilters
    /\ age_range = <<>>
    /\ is_default_age_range = TRUE
    /\ filtered_df = EmptyDf
    /\ pathology_data = EmptyDf
    /\ pathology_manifest = NoManifest
    /\ PgStart

AgeInit ==
    /\ DlIdle
    /\ clinical_xlsx \in AgeSheets
    /\ df = NoDf
    /\ filters = NoFilters
    /\ age_range = <<>>
    /\ is_default_age_range = TRUE
    /\ filtered_df = EmptyDf
    /\ pathology_data = EmptyDf
    /\ pathology_manifest = NoManifest
    /\ PgStart

FilterInit ==
    /\ DlIdle
    /\ clinical_xlsx = EmptyDf
    /\ df \in {[kind |-> "ok", df |-> t] : t \in FilterTables}
    /\ filters = NoFilters
    /\ age_range = DefaultAgeRange
    /\ is_default_age_range = TRUE
    /\ filtered_df = filter_dataframe(df.df, filters, age_range, is_default_age_range)
    /\ pathology_data = EmptyDf
    /\ pathology_manifest = NoManifest
    /\ PgStart

ManifestInit ==
    /\ DlIdle
    /\ clinical_xlsx = EmptyDf
    /\ df = NoDf
    /\ filters = NoFilters
    /\ age_range = <<>>
    /\ is_default_age_range = TRUE
    /\ filtered_df \in ManifestClinicalTables
    /\ pathology_data \in AssetTables
    /\ pathology_manifest = NoManifest
    /\ PgStart

----------------------------------------------------------------------------
(* Specifications.                                                         *)

\* the downloader application
Init == sheet \in DlSheets /\ DlStart /\ CbIdle

Next ==
    \/ select_excel_file
    \/ select_download_directory
    \/ start_download
    \/ \E t \in 1..MaxStarts : RunBeginRow(t)
    \/ \E t \in 1..MaxStarts : RunFinishRow(t)
    \/ \E t \in 1..MaxStarts : RunComplete(t)

Spec == Init /\ [][Next]_vars

\* the column resolver, through a thread constructed from a file path
LoadInit == sheet \in LoadSheets /\ DlStart /\ CbIdle

LoadNext == start_from_path

SpecLoad == LoadInit /\ [][LoadNext]_vars

\* the age normalizer
AgeNext == load_data

SpecAge == AgeInit /\ [][AgeNext]_vars

\* the filter engine
FilterNext == apply_filters

SpecFilter == FilterInit /\ [][FilterNext]_vars

\* the pathology manifest generator
ManifestNext == generate_manifest_button

SpecManifest == ManifestInit /\ [][ManifestNext]_vars

\* the paginated table of the dashboard
PageNext ==
    \/ press_previous
    \/ press_next
    \/ change_page_size
    \/ apply_filters

SpecPage == FilterInit /\ [][PageNext]_vars

----------------------------------------------------------------------------
(* Claims about the downloader, checked under Spec.                        *)

Terminated(th) == th.pc \in {"finished", "crashed"}

\* the rows of th whose iteration has ended
RowsEnded(th) == IF th.pc = "downloading" THEN th.idx - 1 ELSE th.idx

\* C1: every error raised while a row is handled is caught and reported as
\* the progress message "Failed to download <Case ID>: <reason>", and the
\* loop goes on to the next row: no exception ends run, so every row whose
\* iteration has ended has its progress report, and a thread that has
\* stopped has attempted every row.
C1_RowErrorsNeverAbort ==
    \A t \in DOMAIN threads :
        LET th == threads[t]
        IN  /\ th.pc # "crashed"
            /\ Len(th.progress) = RowsEnded(th)
            /\ Terminated(th) => th.idx = Len(th.data.rows)
            /\ \A k \in DOMAIN th.progress :
                  \/ StartsAt(th.progress[k].message, "Downloaded: ", 1)
                  \/ StartsAt(th.progress[k].message,
                              "Failed to download "
                                 \o th.data.rows[k]["Case ID"].v \o ": ", 1)

\* C2: run emits exactly N progress reports with counters 1..N in order,
\* each with total N, and then the completion signal exactly once, with
\* value true, after the N-th report and never before it.
C2_ProgressThenCompletion ==
    \A t \in DOMAIN threads :
        LET th == threads[t]
            N == Len(th.data.rows)
        IN  /\ Len(th.progress) <= N
            /\ \A k \in DOMAIN th.progress :
                  th.progress[k].current = k /\ th.progress[k].total = N
            /\ th.complete # <<>> => Len(th.progress) = N
            /\ Len(th.complete) <= 1
            /\ Terminated(th) => Len(th.progress) = N /\ th.complete = <<TRUE>>

\* a required logical field none of whose aliases is a column of df
MissingFields(excel) ==
    {f \in {"image URL", "patient ID"} :
        LET aliases == IF f = "image URL" THEN url_columns ELSE patient_id_columns
        IN  \A i \in DOMAIN aliases : aliases[i] \notin excel.columns}

\* C8: when the spreadsheet has no alias of a required field, the download
\* fails before any row is processed, on every path to the thread: no
\* thread runs, no progress report or completion is emitted, no file is
\* written.
C8_SchemaErrorBeforeRows ==
    (sheet.readable /\ MissingFields(sheet.df) # {}) =>
        /\ threads = <<>>
        /\ files = {}

\* s.lstrip('/')
RECURSIVE LStripSlash(_)
LStripSlash(s) ==
    IF Len(s) > 0 /\ SubSeq(s, 1, 1) = "/"
    THEN LStripSlash(SubSeq(s, 2, Len(s)))
    ELSE s

HasMarker(url) == \E p \in 1..Len(url) : StartsAt(url, "/ross/", p)

\* everything in url after the first "/ross/"
AfterFirstMarker(url) ==
    LET p == CHOOSE q \in 1..Len(url) :
                /\ StartsAt(url, "/ross/", q)
                /\ \A r \in 1..(q - 1) : ~StartsAt(url, "/ross/", r)
    IN  SubSeq(url, p + Len("/ross/"), Len(url))

\* the path of rest inside the directory root
PathUnder(root, rest) == RStripSlash(root) \o "/" \o LStripSlash(rest)

\* C10: for a URL that contains /ross/, the destination path is the
\* destination root joined with everything after the first /ross/, and the
\* parent directory of every file written exists.
C10_DestinationUnderRoot ==
    /\ \A t \in DOMAIN threads :
          LET th == threads[t]
          IN  (th.idx >= 1 /\ th.pc # "crashed" /\ HasMarker(th.data.rows[th.idx]["imageUrl"].v))
                 => th.file_path =
                      PathUnder(th.download_dir,
                                AfterFirstMarker(th.data.rows[th.idx]["imageUrl"].v))
    /\ \A f \in files : os_path_dirname(f) \in dirs

\* C12: rows are fetched strictly one at a time: whatever the sequence of
\* Start Download presses, a press while a batch is running included, at
\* most one row is in the downloading state and at most one request is in
\* flight.
C12_OneDownloadAtATime ==
    Cardinality({t \in DOMAIN threads : threads[t].pc = "downloading"}) <= 1

----------------------------------------------------------------------------
(* Claims about the column resolver, checked under SpecLoad.               *)

\* the alias of highest priority among those that are columns
HighestPriority(aliases, columns) ==
    aliases[CHOOSE k \in DOMAIN aliases :
               /\ aliases[k] \in columns
               /\ \A j \in 1..(k - 1) : aliases[j] \notin columns]

\* C9: for a table with at least one alias of each field, load_manifest
\* gives exactly the columns imageUrl and Case ID, each row's values taken
\* from the alias of highest priority that is a column of the table.
C9_FirstAliasResolved ==
    (starts > 0 /\ MissingFields(sheet.df) = {}) =>
        /\ Len(threads) = starts
        /\ \A t \in DOMAIN threads :
              LET data == threads[t].data
                  u == HighestPriority(url_columns, sheet.df.columns)
                  p == HighestPriority(patient_id_columns, sheet.df.columns)
              IN  /\ data.columns = {"imageUrl", "Case ID"}
                  /\ Len(data.rows) = Len(sheet.df.rows)
                  /\ \A i \in DOMAIN data.rows :
                        /\ DOMAIN data.rows[i] = {"imageUrl", "Case ID"}
                        /\ data.rows[i]["imageUrl"] = sheet.df.rows[i][u]
                        /\ data.rows[i]["Case ID"] = sheet.df.rows[i][p]

\* a table with image_url and url but no imageUrl column was resolved to image_url
C9_Witness ==
    /\ {"image_url", "url", "Patient ID", "case_id"} \subseteq sheet.df.columns
    /\ "imageUrl" \notin sheet.df.columns
    /\ "Case ID" \notin sheet.df.columns
    /\ threads # <<>>
    /\ threads[1].data.rows # <<>>
    /\ threads[1].data.rows[1]["imageUrl"] = Str("image_url")
    /\ threads[1].data.rows[1]["Case ID"] = Str("Patient ID")

----------------------------------------------------------------------------
(* Claims about the age normalizer, checked under SpecAge.                 *)

Abs(x) == IF x < 0 THEN -x ELSE x

\* w occurs in s, letter case ignored (w is lower case)
ContainsIgnoreCase(s, w) ==
    \E p \in 1..(Len(s) - Len(w) + 1) :
        \A k \in 1..Len(w) : LowerChar(SubSeq(s, p + k - 1, p + k - 1)) = SubSeq(w, k, k)

\* the unit factor <<numerator, denominator>> of a unit cell
ClaimedFactor(uom) ==
    IF ~IsStr(uom) THEN <<1, 1>>
    ELSE IF ContainsIgnoreCase(uom.v, "year") THEN <<1, 1>>
    ELSE IF ContainsIgnoreCase(uom.v, "month") THEN <<1, 12>>
    ELSE IF ContainsIgnoreCase(uom.v, "day") THEN <<4, 1461>>
    ELSE <<1, 1>>

\* the raw age columns of the sheet that hold a number in row
NumericAgeColumns(row) ==
    {c \in Range(age_columns) \cap clinical_xlsx.columns : IsNum(row[c])}

\* C5: each row's Age at Baseline is the minimum, over the raw age columns
\* present and numeric in the row, of raw value x unit factor, rounded to
\* one decimal place (it is a number of tenths within 0.05 of that minimum),
\* the factor chosen from Age UOM by substring, case ignored: year 1, else
\* month 1/12, else day 1/365.25, else 1.
C5_BaselineIsRoundedMinimum ==
    df # NoDf =>
        /\ df.kind = "ok"
        /\ Len(df.df.rows) = Len(clinical_xlsx.rows)
        /\ \A i \in DOMAIN df.df.rows :
              LET raw == clinical_xlsx.rows[i]
                  f == ClaimedFactor(raw[uom_column])
                  age == df.df.rows[i]["Age at Baseline"]
              IN  NumericAgeColumns(raw) # {} =>
                    /\ IsNum(age) /\ age.d = 10
                    /\ \E c \in NumericAgeColumns(raw) :
                          /\ \A c2 \in NumericAgeColumns(raw) :
                                raw[c].n * f[1] <= raw[c2].n * f[1]
                          /\ 2 * Abs(age.n * f[2] - 10 * raw[c].n * f[1]) <= f[2]

\* 600 and 51 recorded in months: the minimum 51/12 = 4.25 was rounded to 4.2
C5_Witness ==
    /\ df.kind = "ok"
    /\ clinical_xlsx.rows # <<>>
    /\ Range(age_columns) \subseteq clinical_xlsx.columns
    /\ clinical_xlsx.rows[1]["Age UOM"] = Str(" MONTHS ")
    /\ clinical_xlsx.rows[1]["Age at Diagnosis"] = Num(600, 1)
    /\ clinical_xlsx.rows[1]["Age at Surgery"] = Num(51, 1)
    /\ clinical_xlsx.rows[1]["Age at Enrollment"] = Str("unknown")
    /\ df.df.rows[1]["Age at Baseline"] = Num(42, 10)

\* C6: a row in which every raw age column is non-numeric or absent gets an
\* absent (NaN) Age at Baseline and no error is raised; a row with a numeric
\* raw age never gets NaN, so absent and 0 are told apart.
C6_AbsentWhenNoNumericAge ==
    df # NoDf =>
        /\ df.kind = "ok"
        /\ \A i \in DOMAIN clinical_xlsx.rows :
              (NumericAgeColumns(clinical_xlsx.rows[i]) = {})
                 <=> (df.df.rows[i]["Age at Baseline"] = NaN)
        /\ \A i \in DOMAIN clinical_xlsx.rows :
              (\E c \in NumericAgeColumns(clinical_xlsx.rows[i]) :
                    clinical_xlsx.rows[i][c].n = 0)
                 => df.df.rows[i]["Age at Baseline"] = Num(0, 10)

\* a table with none of the raw age columns was normalized: its row has NaN
C6_Witness ==
    /\ df.kind = "ok"
    /\ clinical_xlsx.columns = {"Age UOM"}
    /\ df.df.rows # <<>>
    /\ df.df.rows[1]["Age at Baseline"] = NaN

\* C14: a row whose raw ages are Age at Diagnosis = 600, recorded in months,
\* and Age at Surgery = 51, recorded in years, has each raw age converted
\* with its own unit factor, to 50.0 and 51.0, and gets Age at Baseline =
\* 50.0; the row's Age UOM cell, the one place the sheet records units,
\* names months or years.
C14_PerColumnUnits ==
    df # NoDf =>
        \A i \in DOMAIN clinical_xlsx.rows :
            LET raw == clinical_xlsx.rows[i]
            IN  (/\ {"Age at Diagnosis", "Age at Surgery"} \subseteq clinical_xlsx.columns
                 /\ raw["Age at Diagnosis"] = Num(600, 1)
                 /\ raw["Age at Surgery"] = Num(51, 1)
                 /\ "Age at Enrollment" \in clinical_xlsx.columns
                        => ~IsNum(raw["Age at Enrollment"])
                 /\ IsStr(raw[uom_column])
                 /\ \/ ContainsIgnoreCase(raw[uom_column].v, "month")
                    \/ ContainsIgnoreCase(raw[uom_column].v, "year"))
                => /\ df.kind = "ok"
                   /\ df.df.rows[i]["Age at Baseline"] = Num(500, 10)

----------------------------------------------------------------------------
(* Claims about the filter engine, checked under SpecFilter.               *)

\* the row's value is accepted in every column that has accepted values
CategoricalOk(r, flt) ==
    \A c \in DOMAIN flt : flt[c] # {} => (c \in DOMAIN r /\ r[c].v \in flt[c])

\* the age rule: ages and bounds are numbers of tenths
AgeOk(r, range, is_default) ==
    LET age == r["Age at Baseline"]
    IN  IF is_default THEN TRUE
        ELSE IF range[1].n = 0 THEN age = NaN \/ (age # NaN /\ age.n <= range[2].n)
        ELSE age # NaN /\ range[1].n <= age.n /\ age.n <= range[2].n

\* C3: with is_default_age_range no row is removed on account of age; else
\* with min = 0 a row is kept iff its age is absent or <= max; else a row is
\* kept iff its age is present and min <= age <= max.
C3_AgeRangeRule ==
    filtered_df.rows =
        SelectSeq(SelectSeq(df.df.rows, LAMBDA r : CategoricalOk(r, filters)),
                  LAMBDA r : AgeOk(r, age_range, is_default_age_range))

\* min = 40.0: the row with absent age was removed, the row whose age is the
\* lower bound was kept
C3_Witness ==
    /\ ~is_default_age_range
    /\ filters = NoFilters
    /\ age_range = <<Num(400, 10), Num(401, 10)>>
    /\ Len(df.df.rows) = 2
    /\ df.df.rows[1]["Age at Baseline"] = NaN
    /\ df.df.rows[2]["Age at Baseline"] = Num(400, 10)
    /\ filtered_df.rows = <<df.df.rows[2]>>

\* C4: categorical filters are a conjunction: every row of the result has an
\* accepted value in every column with a non-empty accepted set, and with
\* the age range at its default the result is exactly those rows of the
\* source table, in order; an empty set removes no row.
C4_CategoricalConjunction ==
    /\ \A k \in DOMAIN filtered_df.rows : CategoricalOk(filtered_df.rows[k], filters)
    /\ is_default_age_range =>
          filtered_df.rows = SelectSeq(df.df.rows, LAMBDA r : CategoricalOk(r, filters))

\* two filters set: a row accepted by one and not the other was removed, a
\* row accepted by both was kept
C4_Witness ==
    /\ is_default_age_range
    /\ filters["Available Images"] = {"Radiology"}
    /\ filters["Sex at Birth"] = {"Female"}
    /\ Len(df.df.rows) = 2
    /\ df.df.rows[1]["Available Images"] = Str("Radiology")
    /\ df.df.rows[1]["Sex at Birth"] = Str("Male")
    /\ df.df.rows[2]["Available Images"] = Str("Radiology")
    /\ df.df.rows[2]["Sex at Birth"] = Str("Female")
    /\ filtered_df.rows = <<df.df.rows[2]>>

\* C11: filter_dataframe is idempotent and has an identity: filtering the
\* result again with the same filters and range gives the same table, rows
\* in the same order; with no accepted values and the range at its default
\* the result equals the source table; and no step changes the source table.
C11_IdempotentWithIdentity ==
    /\ [](/\ filter_dataframe(filtered_df, filters, age_range, is_default_age_range)
                = filtered_df
          /\ (filters = NoFilters /\ is_default_age_range) => filtered_df = df.df)
    /\ [][df' = df]_vars

\* a filter and a narrowed range removed the second of two rows and kept the
\* first, whose age is absent
C11_Witness ==
    /\ ~is_default_age_range
    /\ filters["Sex at Birth"] = {"Female"}
    /\ filters["Available Images"] = {}
    /\ age_range = <<Num(0, 10), Num(400, 10)>>
    /\ Len(df.df.rows) = 2
    /\ df.df.rows[1]["Sex at Birth"] = Str("Female")
    /\ df.df.rows[1]["Age at Baseline"] = NaN
    /\ df.df.rows[2]["Sex at Birth"] = Str("Female")
    /\ df.df.rows[2]["Age at Baseline"] = Num(401, 10)
    /\ filtered_df.rows = <<df.df.rows[1]>>

----------------------------------------------------------------------------
(* Claims about the pathology manifest generator, checked under            *)
(* SpecManifest.                                                           *)

\* the columns an error of generate_pathology_manifest names
NamedInError(e) ==
    {c \in Range(required_columns) :
        \/ Contains(e.msg, "'" \o c \o "'")
        \/ \E k \in DOMAIN e.missing : e.missing[k] = c}

\* C13: generate_pathology_manifest fails with a schema error when Case ID
\* is missing from either input or a required column is missing from the
\* asset table, and the error names every required column that the asset
\* table lacks, not just the first.
C13_EveryMissingColumnNamed ==
    pathology_manifest # NoManifest =>
        LET absent == Range(required_columns) \ pathology_data.columns
        IN  ("Case ID" \notin filtered_df.columns \/ absent # {}) =>
               /\ pathology_manifest.kind = "ValueError"
               /\ absent \subseteq NamedInError(pathology_manifest)

\* C7: the manifest has rows only for cases whose Available Images contains
\* "Pathology": a clinical row without it contributes no output row.
C7_OnlyPathologyCases ==
    pathology_manifest.kind = "ok" =>
        \A k \in DOMAIN pathology_manifest.df.rows :
            Contains(pathology_manifest.df.rows[k]["Available Images"].v, "Pathology")

----------------------------------------------------------------------------
(* Claims about the paginated table, checked under SpecPage.               *)

\* C15: after any sequence of previous-page and next-page presses, page-size
\* changes and filter changes, the page number in session state when the
\* table is displayed satisfies 0 <= page_number <= max_page for the current
\* filtered rows and page size, so the displayed page is non-empty whenever
\* the filtered table is.
C15_PageNumberInRange ==
    /\ 0 <= page_number
    /\ page_number <= max_page(Len(filtered_df.rows), page_size)
    /\ filtered_df.rows # <<>> =>
          page_data(filtered_df.rows, page_number, page_size) # <<>>

====
